---- MODULE Spec2Model ----
(***************************************************************************)
(* Model of md-summarizer: the markdown section splitter                   *)
(* (src/src/md_parser.py), the concurrent tree processor and the combiner  *)
(* (src/src/md_summarizer.py), and the flat conversion with its merge of   *)
(* YAML answers (src/src/converter.py).                                    *)
(*                                                                         *)
(* Text is a sequence of one-character strings, so that strip, splitlines, *)
(* slicing by character offset and the heading regular expressions are     *)
(* computed the way the Python code computes them.                         *)
(***************************************************************************)
EXTENDS Integers, Sequences, FiniteSets, TLC

VARIABLES
    doc,        \* the text handed to summarize / parse
    oracle,     \* which deterministic oracle answers summarize_section
    heap,       \* the Section objects: heap[id] = [title, content, level, sections]
    orig,       \* history: what parse returned, [objs |-> the objects, refs |-> the dict]
    top,        \* summarize: the dict returned by parser.parse, as <<key, id>> pairs
    pc,         \* pc[id]: position of the _process_section coroutine of Section id
    kids,       \* kids[id]: processed_children_dict of that coroutine (local)
    calls,      \* calls[id]: oracle requests issued for Section id
    order,      \* ids of the coroutines in the order in which they finished
    err,        \* err[id]: origin of the exception a failed coroutine carries
    sumPc,      \* position of summarize
    sumErr,     \* origin of the exception summarize raised, 0 if none
    result,     \* the text summarize returned
    pst,        \* parser-only pipeline: position
    ptree,      \* parser-only pipeline: value returned by parse
    pout,       \* parser-only pipeline: value returned by _combine_sections
    cpc,        \* position of MarkdownToYamlConverter.convert
    frags,      \* convert: prepared_sections
    yaml_sections,  \* convert: the answer of convert_to_yaml for each section
    outfile,    \* convert: the text written to output_file, <<>> while not written
    cerr,       \* convert: what made it raise, "none" if nothing
    usage,      \* DocumentAgent.usage, the cumulative counter
    req,        \* OpenAIClient.summarize_section: its arguments
    cst,        \* OpenAIClient.summarize_section: its position
    cout,       \* OpenAIClient.summarize_section: what it returned or raised
    sent,       \* OpenAIClient: requests sent to the model
    macc,       \* _deep_merge: dict1, the accumulator
    mst,        \* _deep_merge: "ok", or "raised" once a call raised
    mlog        \* _deep_merge: the arguments of the calls made, in order

convVars == <<cpc, frags, yaml_sections, outfile, cerr>>

extVars == <<req, cst, cout, sent, macc, mst, mlog>>

vars == <<doc, oracle, heap, orig, top, pc, kids, calls, order, err, sumPc, sumErr,
          result, pst, ptree, pout, convVars, usage, extVars>>

\* OpenAIClient.summarize_section and _deep_merge are not called
ExtOff ==
    /\ req = <<>>
    /\ cst = "off"
    /\ cout = <<>>
    /\ sent = 0
    /\ macc = <<>>
    /\ mst = "off"
    /\ mlog = <<>>

----------------------------------------------------------------------------
(* Bounds of the model                                                     *)

MaxLines == 4
MaxParseLines == 4
MaxCombineLines == 5
MaxConvLines == 3

----------------------------------------------------------------------------
(* Python str primitives                                                   *)

Whitespace == {" ", "\t", "\n", "\r"}

LineBreaks == {"\n", "\r"}

MinOf(S) == CHOOSE x \in S : \A y \in S : x <= y

MaxOf(S) == CHOOSE x \in S : \A y \in S : x >= y

\* str.strip()
Strip(s) ==
    LET idx == {i \in 1..Len(s) : s[i] \notin Whitespace}
    IN  IF idx = {} THEN <<>> ELSE SubSeq(s, MinOf(idx), MaxOf(idx))

\* str.lstrip(), as the greedy \s+ of a regular expression consumes it
LStrip(s) ==
    LET idx == {i \in 1..Len(s) : s[i] \notin Whitespace}
    IN  IF idx = {} THEN <<>> ELSE SubSeq(s, MinOf(idx), Len(s))

\* s[a:b] with Python's 0-based, clamped bounds
Slice(s, a, b) ==
    LET hi == IF b > Len(s) THEN Len(s) ELSE b
    IN  IF a >= hi THEN <<>> ELSE SubSeq(s, a + 1, hi)

\* str.startswith
StartsWith(s, p) == Len(s) >= Len(p) /\ SubSeq(s, 1, Len(p)) = p

\* str.splitlines(): \n, \r and \r\n end a line; no empty last line
RECURSIVE SplitLines(_)
SplitLines(s) ==
    IF s = <<>> THEN <<>>
    ELSE LET brk == {i \in 1..Len(s) : s[i] \in LineBreaks}
         IN  IF brk = {} THEN <<s>>
             ELSE LET i == MinOf(brk)
                      j == IF s[i] = "\r" /\ i < Len(s) /\ s[i + 1] = "\n"
                           THEN i + 1 ELSE i
                  IN  <<SubSeq(s, 1, i - 1)>> \o SplitLines(SubSeq(s, j + 1, Len(s)))

\* sep.join(parts)
RECURSIVE Join(_, _)
Join(parts, sep) ==
    IF parts = <<>> THEN <<>>
    ELSE IF Len(parts) = 1 THEN parts[1]
    ELSE parts[1] \o sep \o Join(Tail(parts), sep)

\* seq[1:]
Rest(seq) == IF seq = <<>> THEN <<>> ELSE Tail(seq)

\* c * n for a one-character string c
Repeat(c, n) == [i \in 1..n |-> c]

\* str.lower() on the characters of the model's alphabet
LowerChar(c) ==
    CASE c = "A" -> "a"
      [] c = "B" -> "b"
      [] c = "C" -> "c"
      [] c = "D" -> "d"
      [] c = "E" -> "e"
      [] c = "F" -> "f"
      [] c = "S" -> "s"
      [] OTHER -> c

Lower(s) == [i \in 1..Len(s) |-> LowerChar(s[i])]

\* the letters of the model's alphabet in code point order
Alphabet == <<"a", "b", "c", "d", "e", "f", "o", "r", "s", "t", "x", "y">>

\* the class [a-z0-9]
KeyChars == {"a", "b", "c", "d", "e", "f", "s", "o", "r", "t", "x", "y", "1", "2"}

\* mutant: a key that is already there keeps its first value
DictSetFirstWins(d, k, v) ==
    IF \E i \in 1..Len(d) : d[i][1] = k THEN d ELSE Append(d, <<k, v>>)

\* a Python dict as its <<key, value>> pairs in insertion order
DictSet(d, k, v) ==
    IF \E i \in 1..Len(d) : d[i][1] = k
    THEN [i \in 1..Len(d) |-> IF d[i][1] = k THEN <<k, v>> ELSE d[i]]
    ELSE Append(d, <<k, v>>)

RECURSIVE DictOf(_)
DictOf(pairs) ==
    IF pairs = <<>> THEN <<>>
    ELSE LET n == Len(pairs)
         IN  DictSet(DictOf(SubSeq(pairs, 1, n - 1)), pairs[n][1], pairs[n][2])

\* d[k]
DictGet(d, k) == d[CHOOSE i \in 1..Len(d) : d[i][1] = k][2]

\* k in d
HasKey(d, k) == \E i \in 1..Len(d) : d[i][1] = k

Keys(d) == [i \in 1..Len(d) |-> d[i][1]]

Values(d) == [i \in 1..Len(d) |-> d[i][2]]

\* dict(zip(ks, vs))
Zip(ks, vs) ==
    LET n == IF Len(ks) < Len(vs) THEN Len(ks) ELSE Len(vs)
    IN  DictOf([i \in 1..n |-> <<ks[i], vs[i]>>])

----------------------------------------------------------------------------
(* MarkdownParser                                                          *)

MaxHeadingLevel == 6

\* the backtick character (TLA+ strings cannot hold it)
Backtick == "BACKTICK"

\* the marker that toggles in_code_block
Fence == <<Backtick, Backtick, Backtick>>

\* re.match('^#{level}\s+(.+)$', stripped): the title, <<>> when no match
HeadingTitle(stripped, level) ==
    IF /\ Len(stripped) > level
       /\ \A i \in 1..level : stripped[i] = "#"
       /\ stripped[level + 1] \in Whitespace
    THEN LStrip(SubSeq(stripped, level + 1, Len(stripped)))
    ELSE <<>>

\* re.match('^(#{1,6})\s', stripped): len(group(1)), 0 when no match
HeadingDepth(stripped) ==
    LET ds == {l \in 1..MaxHeadingLevel :
                  /\ Len(stripped) > l
                  /\ \A i \in 1..l : stripped[i] = "#"
                  /\ stripped[l + 1] \in Whitespace}
    IN  IF ds = {} THEN 0 ELSE MaxOf(ds)

\* mutant: the scanning loop without the code block test
RECURSIVE FindPositionsAnywhere(_, _, _, _, _)
FindPositionsAnywhere(lines, i, current_pos, in_code_block, level) ==
    IF i > Len(lines) THEN <<>>
    ELSE LET stripped == Strip(lines[i])
             next == current_pos + Len(lines[i]) + 1
             title == HeadingTitle(stripped, level)
         IN  (IF title # <<>> THEN << <<current_pos, title>> >> ELSE <<>>)
             \o FindPositionsAnywhere(lines, i + 1, next, in_code_block, level)

\* the scanning loop of _split_at_level: <<current_pos, title>> of every
\* heading of the level outside a code block
RECURSIVE FindPositions(_, _, _, _, _)
FindPositions(lines, i, current_pos, in_code_block, level) ==
    IF i > Len(lines) THEN <<>>
    ELSE LET stripped == Strip(lines[i])
             next == current_pos + Len(lines[i]) + 1
         IN  IF StartsWith(stripped, Fence)
             THEN FindPositions(lines, i + 1, next, ~in_code_block, level)
             ELSE LET title == HeadingTitle(stripped, level)
                      here == IF ~in_code_block /\ title # <<>>
                              THEN << <<current_pos, title>> >> ELSE <<>>
                  IN  here \o FindPositions(lines, i + 1, next, in_code_block, level)

\* re.sub('[^a-z0-9]+', '_', key); re.sub('_+', '_', key)
RECURSIVE CollapseKey(_, _)
CollapseKey(s, prevSep) ==
    IF s = <<>> THEN <<>>
    ELSE IF Head(s) \in KeyChars
         THEN <<Head(s)>> \o CollapseKey(Tail(s), FALSE)
         ELSE (IF prevSep THEN <<>> ELSE <<"_">>) \o CollapseKey(Tail(s), TRUE)

\* str.strip('_')
StripUnderscore(s) ==
    LET idx == {i \in 1..Len(s) : s[i] # "_"}
    IN  IF idx = {} THEN <<>> ELSE SubSeq(s, MinOf(idx), MaxOf(idx))

_make_key(title) == StripUnderscore(CollapseKey(Lower(title), FALSE))

\* mutant: the slice between two headings is taken as it is
SectionTextUnstripped(content, pos, next_pos) == Slice(content, pos, next_pos)

\* content[pos:next_pos].strip()
SectionText(content, pos, next_pos) == Strip(Slice(content, pos, next_pos))

RECURSIVE _split_at_level(_, _)
_split_at_level(content, level) ==
    LET positions == FindPositions(SplitLines(content), 1, 0, FALSE, level)
        section(i) ==
            LET pos == positions[i][1]
                next_pos == IF i < Len(positions) THEN positions[i + 1][1]
                            ELSE Len(content)
                section_content ==
                    Join(Rest(SplitLines(SectionText(content, pos, next_pos))),
                         <<"\n">>)
                subsections == IF level < MaxHeadingLevel
                               THEN _split_at_level(section_content, level + 1)
                               ELSE <<>>
            IN  [title |-> positions[i][2],
                 content |-> section_content,
                 level |-> level,
                 sections |-> DictOf([k \in 1..Len(subsections) |->
                                 <<_make_key(subsections[k].title), subsections[k]>>])]
    IN  [i \in 1..Len(positions) |-> section(i)]

\* mutant: the scanning loop of parse without the code block test
RECURSIVE FindHeadingsAnywhere(_, _, _)
FindHeadingsAnywhere(lines, i, in_code_block) ==
    IF i > Len(lines) THEN <<>>
    ELSE (IF HeadingDepth(Strip(lines[i])) > 0
          THEN <<HeadingDepth(Strip(lines[i]))>> ELSE <<>>)
         \o FindHeadingsAnywhere(lines, i + 1, in_code_block)

\* the scanning loop of parse: the depth of every heading outside a code block
RECURSIVE FindHeadings(_, _, _)
FindHeadings(lines, i, in_code_block) ==
    IF i > Len(lines) THEN <<>>
    ELSE LET stripped == Strip(lines[i])
         IN  IF StartsWith(stripped, Fence)
             THEN FindHeadings(lines, i + 1, ~in_code_block)
             ELSE (IF ~in_code_block /\ HeadingDepth(stripped) > 0
                   THEN <<HeadingDepth(stripped)>> ELSE <<>>)
                  \o FindHeadings(lines, i + 1, in_code_block)

\* mutant: only the Section itself is adjusted, not its subsections
normalize_levels_shallow(section, level_adjust) ==
    [section EXCEPT !.level = @ - level_adjust]

RECURSIVE normalize_levels(_, _)
normalize_levels(section, level_adjust) ==
    [section EXCEPT
        !.level = @ - level_adjust,
        !.sections = [k \in 1..Len(@) |->
                         <<@[k][1], normalize_levels(@[k][2], level_adjust)>>]]

RootName == <<"r", "o", "o", "t">>

\* mutant: "if not content" instead of "if not content.strip()"
IsEmptyText(content) == content = <<>>

\* not content.strip()
IsBlank(content) == Strip(content) = <<>>

\* mutant: the text before the first section is kept in a Section of its own
parse_keep_preamble(content) ==
    IF IsBlank(content) THEN <<>>
    ELSE LET headings == FindHeadings(SplitLines(content), 1, FALSE)
         IN  IF headings = <<>>
             THEN << <<RootName, [title |-> RootName, content |-> content,
                                  level |-> 1, sections |-> <<>>]>> >>
             ELSE LET min_level == MinOf({headings[i] : i \in 1..Len(headings)})
                      sections == _split_at_level(content, min_level)
                      first == FindPositions(SplitLines(content), 1, 0, FALSE,
                                             min_level)[1][1]
                      preamble == Strip(Slice(content, 0, first))
                  IN  DictOf((IF preamble = <<>> THEN <<>>
                              ELSE << <<RootName,
                                        [title |-> RootName, content |-> preamble,
                                         level |-> 1, sections |-> <<>>]>> >>)
                         \o [k \in 1..Len(sections) |->
                               <<_make_key(sections[k].title),
                                 normalize_levels(sections[k], min_level - 1)>>])

parse(content) ==
    IF IsBlank(content) THEN <<>>
    ELSE LET headings == FindHeadings(SplitLines(content), 1, FALSE)
         IN  IF headings = <<>>
             THEN << <<RootName, [title |-> RootName, content |-> content,
                                  level |-> 1, sections |-> <<>>]>> >>
             ELSE LET min_level == MinOf({headings[i] : i \in 1..Len(headings)})
                      sections == _split_at_level(content, min_level)
                  IN  DictOf([k \in 1..Len(sections) |->
                         <<_make_key(sections[k].title),
                           normalize_levels(sections[k], min_level - 1)>>])

----------------------------------------------------------------------------
(* MarkdownSummarizer._combine_sections                                    *)

ImportantLevel == 2

Separator == <<"-", "-", "-">>

RECURSIVE flatten_section(_)
RECURSIVE FlattenChildren(_)

\* for child in section.sections.values(): result.extend(flatten_section(child))
FlattenChildren(children) ==
    IF children = <<>> THEN <<>>
    ELSE flatten_section(Head(children)) \o FlattenChildren(Tail(children))

\* mutant: a Section with children is emitted with its content after its heading
flatten_section_with_content(section) ==
    LET header == Repeat("#", section.level) \o <<" ">> \o section.title
        own == IF section.sections = <<>>
               THEN <<header, section.content, Separator>>
               ELSE IF section.level <= ImportantLevel
                    THEN <<header, section.content>> ELSE <<>>
    IN  own \o FlattenChildren(Values(section.sections))

\* mutant: the heading of a Section with children is emitted at every level
flatten_section_any_level(section) ==
    LET header == Repeat("#", section.level) \o <<" ">> \o section.title
        own == IF section.sections = <<>>
               THEN <<header, section.content, Separator>>
               ELSE <<header>>
    IN  own \o FlattenChildren(Values(section.sections))

\* mutant: a leaf is emitted without its heading line
flatten_section_no_header(section) ==
    LET header == Repeat("#", section.level) \o <<" ">> \o section.title
        own == IF section.sections = <<>>
               THEN <<section.content, Separator>>
               ELSE IF section.level <= ImportantLevel THEN <<header>> ELSE <<>>
    IN  own \o FlattenChildren(Values(section.sections))

flatten_section(section) ==
    LET header == Repeat("#", section.level) \o <<" ">> \o section.title
        own == IF section.sections = <<>>
               THEN <<header, section.content, Separator>>
               ELSE IF section.level <= ImportantLevel THEN <<header>> ELSE <<>>
    IN  own \o FlattenChildren(Values(section.sections))

\* mutant: no segment is filtered out
KeepAllParts(parts) == parts

\* [p for p in content_parts if p.strip()]
RECURSIVE FilterParts(_)
FilterParts(parts) ==
    IF parts = <<>> THEN <<>>
    ELSE (IF Strip(Head(parts)) # <<>> THEN <<Head(parts)>> ELSE <<>>)
         \o FilterParts(Tail(parts))

_combine_sections(sections) ==
    Join(FilterParts(FlattenChildren(Values(sections))), <<"\n", "\n">>)

----------------------------------------------------------------------------
(* Section objects: the tree parse returns, laid out as objects with       *)
(* identity, numbered in pre-order, children held by reference             *)

RECURSIVE AllocSections(_, _)
AllocSections(d, base) ==
    IF d = <<>> THEN [refs |-> <<>>, objs |-> <<>>]
    ELSE LET n == Len(d)
             before == AllocSections(SubSeq(d, 1, n - 1), base)
             id == base + Len(before.objs) + 1
             sub == AllocSections(d[n][2].sections, id)
         IN  [refs |-> Append(before.refs, <<d[n][1], id>>),
              objs |-> before.objs
                       \o <<[d[n][2] EXCEPT !.sections = sub.refs]>>
                       \o sub.objs]

\* the tree reachable from a dict of references, as a value
RECURSIVE Deref(_, _)
Deref(h, refs) ==
    [k \in 1..Len(refs) |->
        <<refs[k][1], [h[refs[k][2]] EXCEPT !.sections = Deref(h, @)]>>]

----------------------------------------------------------------------------
(* The Summarization Oracle: text in, text out, may fail                   *)

OracleKinds == {"identity", "tag"}

Oracle(kind, content) ==
    IF kind = "identity" THEN content ELSE <<"%">> \o content

----------------------------------------------------------------------------
(* Documents: lines joined by "\n", as Path.read_text() delivers them      *)

HeadA == <<"#", " ", "A">>
HeadLowerA == <<"#", " ", "a">>
HeadB == <<"#", " ", "B">>
HeadC == <<"#", " ", "C">>
SubD == <<"#", "#", " ", "D">>
SubSubB == <<"#", "#", "#", " ", "B">>
TextX == <<"x">>
BlankLine == <<" ">>
FenceLine == Fence
TildeLine == <<"~", "~", "~">>
IndentedHead == <<" ", " ", " ", " ", "#", " ", "C">>

SubF == <<"#", "#", " ", "F">>
Sub4E == <<"#", "#", "#", "#", " ", "E">>

ConcVocab == {HeadA, HeadLowerA, HeadB, HeadC, SubD, SubSubB, TextX, BlankLine}

ParseVocab == {HeadA, HeadLowerA, HeadB, SubD, SubSubB, TextX, BlankLine,
               FenceLine, TildeLine, IndentedHead}

CombineVocab == {HeadA, SubD, SubF, SubSubB, Sub4E, TextX}

Docs(vocab, n) ==
    {Join(ls, <<"\n">>) : ls \in UNION {[1..k -> vocab] : k \in 0..n}}

----------------------------------------------------------------------------
(* asyncio.gather over the coroutines of the Sections ids                  *)

\* mutant: the caller does not wait for the coroutines it started
GatherDoneNoWait(ids) == TRUE

\* mutant: gather(..., return_exceptions=True), a raised coroutine counts as returned
GatherDoneOrRaised(ids) == \A i \in 1..Len(ids) : pc[ids[i]] \in {"done", "failed"}

\* every awaited coroutine has returned
GatherDone(ids) == \A i \in 1..Len(ids) : pc[ids[i]] = "done"

\* some awaited coroutine has raised
GatherFailed(ids) == \E i \in 1..Len(ids) : pc[ids[i]] = "failed"

\* the exception gather raises: that of the first coroutine to raise
GatherError(ids) ==
    LET failed == {k \in 1..Len(order) :
                      /\ \E i \in 1..Len(ids) : ids[i] = order[k]
                      /\ pc[order[k]] = "failed"}
    IN  err[order[MinOf(failed)]]

\* mutant: the results in the order in which the coroutines finished
GatherResultByCompletion(ids) ==
    LET at(id) == CHOOSE k \in 1..Len(order) : order[k] = id
        S == {ids[i] : i \in 1..Len(ids)}
    IN  [i \in 1..Len(ids) |->
            CHOOSE x \in S : Cardinality({y \in S : at(y) < at(x)}) = i - 1]

\* mutant: a failure that left the outer gather cancels what is still running
CancelledAfterRaise(id) == sumPc # "raised"

\* gather cancels nothing when an awaited coroutine raises: the coroutine of
\* Section id goes on whatever happened to the others
NotCancelled(id) == TRUE

\* the list gather returns: the results in the order of its arguments
\* (each _process_section returns the Section it was given)
GatherResult(ids) == ids

----------------------------------------------------------------------------
(* MarkdownSummarizer                                                      *)

\* mutant: the oracle is asked whatever the content
ShouldSummarizeAlways(content) == TRUE

\* if section.content:
ShouldSummarize(content) == content # <<>>

\* mutant: the processed children are not stored back
WithSummaryNoChildren(section, summary, children) ==
    [section EXCEPT !.content = summary, !.sections = <<>>]

\* lines 59-67 after the await: the Section with its summary and its
\* processed children
WithSummary(section, summary, children) ==
    [section EXCEPT !.content = summary, !.sections = children]

\* lines 55-67 up to the await: coroutine id, with processed_children_dict d
SummarizeContent(id, d) ==
    IF ShouldSummarize(heap[id].content)
    THEN /\ calls' = [calls EXCEPT ![id] = @ + 1]
         /\ pc' = [pc EXCEPT ![id] = "call"]
         /\ kids' = [kids EXCEPT ![id] = d]
         /\ UNCHANGED <<heap, order>>
    ELSE /\ heap' = [heap EXCEPT ![id].sections = d]
         /\ pc' = [pc EXCEPT ![id] = "done"]
         /\ order' = Append(order, id)
         /\ kids' = [kids EXCEPT ![id] = d]
         /\ UNCHANGED calls

\* summarize up to its await: parse, then one coroutine per top-level section
SummarizeStart ==
    /\ sumPc = "idle"
    /\ orig' = AllocSections(parse(doc), 0)
    /\ heap' = orig'.objs
    /\ top' = orig'.refs
    /\ pc' = [id \in DOMAIN heap' |->
                IF \E i \in 1..Len(top') : top'[i][2] = id THEN "new" ELSE "none"]
    /\ kids' = [id \in DOMAIN heap' |-> <<>>]
    /\ calls' = [id \in DOMAIN heap' |-> 0]
    /\ err' = [id \in DOMAIN heap' |-> 0]
    /\ sumPc' = "gather"
    /\ UNCHANGED <<doc, oracle, order, sumErr, result, pst, ptree, pout, convVars, usage, extVars>>

\* _process_section from its start to its first await
TaskStart(id) ==
    /\ pc[id] = "new"
    /\ NotCancelled(id)
    /\ IF heap[id].sections # <<>>
       THEN /\ pc' = [n \in DOMAIN pc |->
                        IF n = id THEN "gather"
                        ELSE IF \E i \in 1..Len(heap[id].sections) :
                                    heap[id].sections[i][2] = n
                             THEN "new" ELSE pc[n]]
            /\ UNCHANGED <<heap, kids, calls, order>>
       ELSE SummarizeContent(id, <<>>)
    /\ UNCHANGED <<doc, oracle, orig, top, err, sumPc, sumErr, result, pst, ptree, pout, convVars, usage, extVars>>

\* _process_section resumes from the gather of its children with their results
TaskJoin(id) ==
    /\ pc[id] = "gather"
    /\ NotCancelled(id)
    /\ GatherDone(Values(heap[id].sections))
    /\ SummarizeContent(id, Zip(Keys(heap[id].sections),
                                GatherResult(Values(heap[id].sections))))
    /\ UNCHANGED <<doc, oracle, orig, top, err, sumPc, sumErr, result, pst, ptree, pout, convVars, usage, extVars>>

\* _process_section resumes from the gather of its children with an exception
TaskJoinFail(id) ==
    /\ pc[id] = "gather"
    /\ NotCancelled(id)
    /\ GatherFailed(Values(heap[id].sections))
    /\ pc' = [pc EXCEPT ![id] = "failed"]
    /\ err' = [err EXCEPT ![id] = GatherError(Values(heap[id].sections))]
    /\ order' = Append(order, id)
    /\ UNCHANGED <<doc, oracle, heap, orig, top, kids, calls, sumPc, sumErr, result,
                   pst, ptree, pout, convVars, usage, extVars>>

\* the token counts of the two prompts, taken once at construction
system_prompt_tokens == 3

document_prompt_tokens == 2

\* Usage(): the counter of a new agent
ZeroUsage ==
    [requests |-> 0, request_tokens |-> 0, response_tokens |-> 0, total_tokens |-> 0]

\* the provider's token count of a text, one token for a character here
Tokens(text) == Len(text)

\* result.usage() of agent.run: the request is the two prompts and the content
RunUsage(content, reply) ==
    LET request == system_prompt_tokens + document_prompt_tokens + Tokens(content)
    IN  [request_tokens |-> request,
         response_tokens |-> Tokens(reply),
         total_tokens |-> request + Tokens(reply)]

\* mutant: the counter is set to the latest amounts, the running totals are lost
incr_overwrite(u, d) == d

\* Usage.incr: every field grows by the amount of the call
incr(u, d) ==
    [requests |-> u.requests + d.requests,
     request_tokens |-> u.request_tokens + d.request_tokens,
     response_tokens |-> u.response_tokens + d.response_tokens,
     total_tokens |-> u.total_tokens + d.total_tokens]

\* BaseAgent.update_usage: the tokens of the section alone, then the increment
update_usage(u, run) ==
    incr(u, [requests |-> 1,
             request_tokens |-> run.request_tokens - system_prompt_tokens
                                    - document_prompt_tokens,
             response_tokens |-> run.response_tokens,
             total_tokens |-> run.total_tokens])

\* the oracle answers: DocumentAgent.summarize_section counts the usage of the
\* run before it returns, then lines 59-67 of _process_section
OracleReturn(id) ==
    /\ pc[id] = "call"
    /\ NotCancelled(id)
    /\ usage' = update_usage(usage, RunUsage(heap[id].content,
                                             Oracle(oracle, heap[id].content)))
    /\ heap' = [heap EXCEPT
                   ![id] = WithSummary(@, Oracle(oracle, @.content), kids[id])]
    /\ pc' = [pc EXCEPT ![id] = "done"]
    /\ order' = Append(order, id)
    /\ UNCHANGED <<doc, oracle, orig, top, kids, calls, err, sumPc, sumErr, result,
                   pst, ptree, pout, convVars, extVars>>

\* the oracle fails: the exception leaves _process_section
OracleFail(id) ==
    /\ pc[id] = "call"
    /\ NotCancelled(id)
    /\ pc' = [pc EXCEPT ![id] = "failed"]
    /\ err' = [err EXCEPT ![id] = id]
    /\ order' = Append(order, id)
    /\ UNCHANGED <<doc, oracle, heap, orig, top, kids, calls, sumPc, sumErr, result,
                   pst, ptree, pout, convVars, usage, extVars>>

\* summarize resumes from _process_sections with the processed dict
SummarizeJoin ==
    /\ sumPc = "gather"
    /\ GatherDone(Values(top))
    /\ top' = Zip(Keys(top), GatherResult(Values(top)))
    /\ result' = _combine_sections(Deref(heap, top'))
    /\ sumPc' = "returned"
    /\ UNCHANGED <<doc, oracle, heap, orig, pc, kids, calls, order, err, sumErr,
                   pst, ptree, pout, convVars, usage, extVars>>

\* summarize resumes from _process_sections with an exception and raises it
SummarizeRaise ==
    /\ sumPc = "gather"
    /\ GatherFailed(Values(top))
    /\ sumErr' = GatherError(Values(top))
    /\ sumPc' = "raised"
    /\ UNCHANGED <<doc, oracle, heap, orig, top, pc, kids, calls, order, err, result,
                   pst, ptree, pout, convVars, usage, extVars>>

Init ==
    /\ doc \in Docs(ConcVocab, MaxLines)
    /\ oracle \in OracleKinds
    /\ heap = <<>>
    /\ orig = [refs |-> <<>>, objs |-> <<>>]
    /\ top = <<>>
    /\ pc = <<>>
    /\ kids = <<>>
    /\ calls = <<>>
    /\ order = <<>>
    /\ err = <<>>
    /\ sumPc = "idle"
    /\ sumErr = 0
    /\ result = <<>>
    /\ pst = "off"
    /\ ptree = <<>>
    /\ pout = <<>>
    /\ cpc = "off"
    /\ frags = <<>>
    /\ yaml_sections = <<>>
    /\ outfile = <<>>
    /\ cerr = "none"
    /\ usage = ZeroUsage
    /\ ExtOff

Next ==
    \/ SummarizeStart
    \/ SummarizeJoin
    \/ SummarizeRaise
    \/ \E id \in DOMAIN heap :
          \/ TaskStart(id)
          \/ TaskJoin(id)
          \/ TaskJoinFail(id)
          \/ OracleReturn(id)
          \/ OracleFail(id)

Spec == Init /\ [][Next]_vars

----------------------------------------------------------------------------
(* YAML as the converter uses it: block mappings of plain scalars, read by *)
(* yaml.safe_load and written by yaml.dump.  A value is a record           *)
(* [kind, str, items]: a scalar with its text, a mapping with its          *)
(* <<key, value>> pairs in insertion order, null, or the YAMLError raised. *)

DumpIndent == 2

YamlNull == [kind |-> "null", str |-> <<>>, items |-> <<>>]

YamlError == [kind |-> "error", str |-> <<>>, items |-> <<>>]

YamlScalar(text) == [kind |-> "scalar", str |-> text, items |-> <<>>]

YamlMap(pairs) == [kind |-> "map", str |-> <<>>, items |-> pairs]

\* str.split(sep) for a one-character separator
RECURSIVE Split(_, _)
Split(s, sep) ==
    LET at == {i \in 1..Len(s) : s[i] = sep}
    IN  IF at = {} THEN <<s>>
        ELSE <<SubSeq(s, 1, MinOf(at) - 1)>>
             \o Split(SubSeq(s, MinOf(at) + 1, Len(s)), sep)

\* the number of leading spaces of a line
Indent(line) ==
    LET idx == {i \in 1..Len(line) : line[i] # " "}
    IN  IF idx = {} THEN Len(line) ELSE MinOf(idx) - 1

\* the positions at which a ':' followed by a space or the end of the line
\* marks a mapping key
KeyMarks(body) ==
    {i \in 1..Len(body) : body[i] = ":" /\ (i = Len(body) \/ body[i + 1] = " ")}

\* the scalars yaml resolves to None
NullScalars == {<<"n", "u", "l", "l">>, <<"~">>}

\* the flow form of the empty mapping
EmptyFlowMap == <<"{", "}">>

\* the lines that follow the first one and are indented deeper than indent
RECURSIVE DeeperPrefix(_, _)
DeeperPrefix(lines, indent) ==
    IF lines = <<>> \/ Indent(Head(lines)) <= indent THEN <<>>
    ELSE <<Head(lines)>> \o DeeperPrefix(Tail(lines), indent)

\* a block mapping whose keys stand at the given indentation
RECURSIVE ParseBlock(_, _)
ParseBlock(lines, indent) ==
    IF lines = <<>> THEN YamlMap(<<>>)
    ELSE LET body == SubSeq(lines[1], Indent(lines[1]) + 1, Len(lines[1]))
             marks == KeyMarks(body)
         IN  IF Indent(lines[1]) # indent \/ marks = {} \/ MinOf(marks) = 1
             THEN YamlError
             ELSE LET c == MinOf(marks)
                      key == SubSeq(body, 1, c - 1)
                      inline == Strip(SubSeq(body, c + 1, Len(body)))
                      children == DeeperPrefix(Tail(lines), indent)
                      rest == SubSeq(lines, 2 + Len(children), Len(lines))
                      value ==
                          IF inline # <<>>
                          THEN IF children # <<>> \/ KeyMarks(inline) # {}
                               THEN YamlError
                               ELSE IF inline \in NullScalars THEN YamlNull
                               ELSE IF inline = EmptyFlowMap THEN YamlMap(<<>>)
                               ELSE YamlScalar(inline)
                          ELSE IF children = <<>> THEN YamlNull
                          ELSE ParseBlock(children, Indent(children[1]))
                      tail == ParseBlock(rest, indent)
                  IN  IF value.kind = "error" \/ tail.kind = "error"
                      THEN YamlError
                      ELSE YamlMap(DictOf(<< <<key, value>> >> \o tail.items))

\* yaml.safe_load
safe_load(text) ==
    LET all == Split(text, "\n")
        keep == {i \in 1..Len(all) : Strip(all[i]) # <<>>}
        F[i \in 0..Len(all)] ==
            IF i = 0 THEN <<>>
            ELSE IF i \in keep THEN Append(F[i - 1], all[i]) ELSE F[i - 1]
        lines == F[Len(all)]
    IN  IF lines = <<>> THEN YamlNull
        ELSE IF \A i \in 1..Len(lines) : KeyMarks(lines[i]) = {}
             THEN LET words == Join([i \in 1..Len(lines) |-> Strip(lines[i])], <<" ">>)
                  IN  IF words \in NullScalars THEN YamlNull
                      ELSE IF words = EmptyFlowMap THEN YamlMap(<<>>)
                      ELSE YamlScalar(words)
        ELSE ParseBlock(lines, Indent(lines[1]))

\* mutant: yaml.dump with its default sort_keys=True, keys in alphabetical order
RECURSIVE SortedItems(_)
SortedItems(pairs) ==
    IF pairs = <<>> THEN <<>>
    ELSE LET Before(a, b) ==
                 \/ a = <<>> /\ b # <<>>
                 \/ a # <<>> /\ b # <<>> /\
                    (CHOOSE i \in 1..Len(Alphabet) : Alphabet[i] = a[1])
                    < (CHOOSE i \in 1..Len(Alphabet) : Alphabet[i] = b[1])
             m == CHOOSE i \in 1..Len(pairs) :
                      \A j \in 1..Len(pairs) : ~Before(pairs[j][1], pairs[i][1])
         IN  <<pairs[m]>>
             \o SortedItems([j \in 1..(Len(pairs) - 1) |->
                                IF j < m THEN pairs[j] ELSE pairs[j + 1]])

\* sort_keys=False: the keys are written in insertion order
OrderedItems(pairs) == pairs

\* the lines yaml.dump writes for a mapping in block style, indent=2
RECURSIVE DumpLines(_, _)
DumpLines(pairs, indent) ==
    IF pairs = <<>> THEN <<>>
    ELSE LET key == Repeat(" ", indent) \o pairs[1][1] \o <<":">>
             v == pairs[1][2]
             own == IF v.kind = "map" /\ v.items # <<>>
                    THEN <<key>> \o DumpLines(OrderedItems(v.items), indent + DumpIndent)
                    ELSE IF v.kind = "map"
                    THEN <<key \o <<" ">> \o EmptyFlowMap>>
                    ELSE IF v.kind = "null"
                    THEN <<key \o <<" ", "n", "u", "l", "l">> >>
                    ELSE <<key \o <<" ">> \o v.str>>
         IN  own \o DumpLines(Tail(pairs), indent)

\* yaml.dump(merged_data, default_flow_style=False, indent=2, sort_keys=False)
Dump(pairs) ==
    IF pairs = <<>> THEN EmptyFlowMap \o <<"\n">>
    ELSE Join(DumpLines(OrderedItems(pairs), 0), <<"\n">>) \o <<"\n">>

----------------------------------------------------------------------------
(* MarkdownToYamlConverter                                                 *)

\* _clean_yaml_response
_clean_yaml_response(yaml_str) ==
    LET cleaned ==
            IF StartsWith(yaml_str, Fence)
            THEN LET lines == Rest(Split(yaml_str, "\n"))
                     kept == IF lines # <<>> /\ Strip(lines[Len(lines)]) = Fence
                             THEN SubSeq(lines, 1, Len(lines) - 1)
                             ELSE lines
                 IN  Join(kept, <<"\n">>)
            ELSE yaml_str
    IN  Strip(cleaned)

\* the scalars that are false in "if section_data"
FalsyScalars == {<<"0">>, <<"f", "a", "l", "s", "e">>}

\* if section_data:
Truthy(data) ==
    \/ data.kind = "map" /\ data.items # <<>>
    \/ data.kind = "scalar" /\ data.str \notin FalsyScalars

\* mutant: merged_data = section_data, what was merged before is dropped
DictReplace(d, pairs) == pairs

\* merged_data.update(section_data) for a mapping
RECURSIVE DictUpdate(_, _)
DictUpdate(d, pairs) ==
    IF pairs = <<>> THEN d
    ELSE DictUpdate(DictSet(d, pairs[1][1], pairs[1][2]), Tail(pairs))

\* the loop of _merge_yaml_sections from section i on, then the dump:
\* [raised, text], raised when dict.update is handed a value that is no mapping
RECURSIVE MergeFrom(_, _, _)
MergeFrom(sections, i, merged_data) ==
    IF i > Len(sections) THEN [raised |-> FALSE, text |-> Dump(merged_data)]
    ELSE LET cleaned == _clean_yaml_response(sections[i])
             section_data == safe_load(cleaned)
         IN  IF Strip(cleaned) = <<>> THEN MergeFrom(sections, i + 1, merged_data)
             ELSE IF section_data.kind = "error"
                  THEN MergeFrom(sections, i + 1, merged_data)
             ELSE IF ~Truthy(section_data)
                  THEN MergeFrom(sections, i + 1, merged_data)
             ELSE IF section_data.kind = "map"
                  THEN MergeFrom(sections, i + 1,
                                 DictUpdate(merged_data, section_data.items))
             ELSE [raised |-> TRUE, text |-> <<>>]

_merge_yaml_sections(sections) == MergeFrom(sections, 1, <<>>)

----------------------------------------------------------------------------
(* The splitter and the combiner alone, on a wider set of documents        *)

ParseStep ==
    /\ pst = "input"
    /\ ptree' = parse(doc)
    /\ pst' = "parsed"
    /\ UNCHANGED <<doc, oracle, heap, orig, top, pc, kids, calls, order, err, sumPc,
                   sumErr, result, pout, convVars, usage, extVars>>

CombineStep ==
    /\ pst = "parsed"
    /\ pout' = _combine_sections(ptree)
    /\ pst' = "combined"
    /\ UNCHANGED <<doc, oracle, heap, orig, top, pc, kids, calls, order, err, sumPc,
                   sumErr, result, ptree, convVars, usage, extVars>>

InitParse ==
    /\ doc \in Docs(ParseVocab, MaxParseLines)
    /\ oracle = "identity"
    /\ heap = <<>>
    /\ orig = [refs |-> <<>>, objs |-> <<>>]
    /\ top = <<>>
    /\ pc = <<>>
    /\ kids = <<>>
    /\ calls = <<>>
    /\ order = <<>>
    /\ err = <<>>
    /\ sumPc = "off"
    /\ sumErr = 0
    /\ result = <<>>
    /\ pst = "input"
    /\ ptree = <<>>
    /\ pout = <<>>
    /\ cpc = "off"
    /\ frags = <<>>
    /\ yaml_sections = <<>>
    /\ outfile = <<>>
    /\ cerr = "none"
    /\ usage = ZeroUsage
    /\ ExtOff

NextParse == ParseStep \/ CombineStep

SpecParse == InitParse /\ [][NextParse]_vars

----------------------------------------------------------------------------
(* The same two steps on documents of headings down to depth 4             *)

InitCombine ==
    /\ doc \in Docs(CombineVocab, MaxCombineLines)
    /\ oracle = "identity"
    /\ heap = <<>>
    /\ orig = [refs |-> <<>>, objs |-> <<>>]
    /\ top = <<>>
    /\ pc = <<>>
    /\ kids = <<>>
    /\ calls = <<>>
    /\ order = <<>>
    /\ err = <<>>
    /\ sumPc = "off"
    /\ sumErr = 0
    /\ result = <<>>
    /\ pst = "input"
    /\ ptree = <<>>
    /\ pout = <<>>
    /\ cpc = "off"
    /\ frags = <<>>
    /\ yaml_sections = <<>>
    /\ outfile = <<>>
    /\ cerr = "none"
    /\ usage = ZeroUsage
    /\ ExtOff

SpecCombine == InitCombine /\ [][NextParse]_vars

----------------------------------------------------------------------------
(* MarkdownToYamlConverter.convert: flat split, one convert_to_yaml call   *)
(* per section, all awaited together, then the merge and the write         *)

\* the flat split of MarkdownParser.parse_file: the document is cut at every
\* heading outside a code block, whatever its depth
RECURSIVE FlatChunks(_, _, _, _, _)
FlatChunks(lines, i, in_code_block, current, chunks) ==
    IF i > Len(lines) THEN Append(chunks, current)
    ELSE LET stripped == Strip(lines[i])
         IN  IF StartsWith(stripped, Fence)
             THEN FlatChunks(lines, i + 1, ~in_code_block,
                             Append(current, lines[i]), chunks)
             ELSE IF ~in_code_block /\ HeadingDepth(stripped) > 0
             THEN FlatChunks(lines, i + 1, in_code_block,
                             <<lines[i]>>, Append(chunks, current))
             ELSE FlatChunks(lines, i + 1, in_code_block,
                             Append(current, lines[i]), chunks)

\* a variant that also keeps the text before the first heading as a fragment
parse_file_keep_preamble(content) ==
    LET chunks == FlatChunks(SplitLines(content), 1, FALSE, <<>>, <<>>)
        NonEmpty(t) == t # <<>>
    IN  SelectSeq([k \in 1..Len(chunks) |-> Strip(Join(chunks[k], <<"\n">>))],
                  NonEmpty)

\* parse_file: one chunk for every heading, trimmed, the empty ones dropped;
\* a document without a heading is one fragment, the whole trimmed text
parse_file(content) ==
    LET chunks == FlatChunks(SplitLines(content), 1, FALSE, <<>>, <<>>)
        headed == IF Len(chunks) > 1 THEN Rest(chunks) ELSE chunks
        NonEmpty(t) == t # <<>>
    IN  SelectSeq([k \in 1..Len(headed) |-> Strip(Join(headed[k], <<"\n">>))],
                  NonEmpty)

max_chars == 4000

MaxWords == 100

TruncatedMark ==
    <<".", ".", ".", "(", "c", "o", "n", "t", "e", "n", "t", " ",
      "t", "r", "u", "n", "c", "a", "t", "e", "d", ")">>

\* str.split(): the words between runs of whitespace
RECURSIVE Words(_)
Words(s) ==
    LET t == LStrip(s)
    IN  IF t = <<>> THEN <<>>
        ELSE LET ws == {i \in 1..Len(t) : t[i] \in Whitespace}
                 e == IF ws = {} THEN Len(t) + 1 ELSE MinOf(ws)
             IN  <<SubSeq(t, 1, e - 1)>> \o Words(SubSeq(t, e, Len(t)))

_prepare_section(section) ==
    IF Len(section) > max_chars
    THEN LET lines == Split(section, "\n")
             words == Words(Join(Rest(lines), <<"\n">>))
             kept == SubSeq(words, 1, IF Len(words) < MaxWords THEN Len(words) ELSE MaxWords)
         IN  lines[1] \o <<"\n">> \o Join(kept, <<" ">>) \o TruncatedMark
    ELSE section

\* what convert_to_yaml may answer: the text of the model's reply
RespNestedA == <<"s", ":", "\n", " ", " ", "a", ":", " ", "1">>
RespNestedB == <<"s", ":", "\n", " ", " ", "b", ":", " ", "2">>
RespFlatT == <<"t", ":", " ", "1">>
RespFlatS == <<"s", ":", " ", "2">>
RespFenced == Fence \o <<"\n", "t", ":", "\n", " ", " ", "a", ":", " ", "1", "\n">> \o Fence
RespProse == <<"x">>
RespBroken == <<"s", ":", " ", "t", ":", " ", "1">>
RespEmpty == <<>>

Responses == {RespNestedA, RespNestedB, RespFlatT, RespFlatS, RespFenced,
              RespProse, RespBroken, RespEmpty}

HeadS == <<"#", " ", "S">>

ConvVocab == {HeadS, TextX}

\* the coroutines handed to asyncio.gather, one per prepared section
ConvertTasks == [i \in 1..Len(frags) |-> i]

\* convert up to its await: split, prepare, one convert_to_yaml per section
ConvertStart ==
    /\ cpc = "idle"
    /\ frags' = [i \in 1..Len(parse_file(doc)) |-> _prepare_section(parse_file(doc)[i])]
    /\ pc' = [i \in 1..Len(frags') |-> "call"]
    /\ yaml_sections' = [i \in 1..Len(frags') |-> <<>>]
    /\ cpc' = "gather"
    /\ UNCHANGED <<doc, oracle, heap, orig, top, kids, calls, order, err, sumPc,
                   sumErr, result, pst, ptree, pout, outfile, cerr, usage,
                   extVars>>

\* convert_to_yaml for section i returns the reply
YamlReturn(i) ==
    /\ pc[i] = "call"
    /\ \E reply \in Responses : yaml_sections' = [yaml_sections EXCEPT ![i] = reply]
    /\ pc' = [pc EXCEPT ![i] = "done"]
    /\ order' = Append(order, i)
    /\ UNCHANGED <<doc, oracle, heap, orig, top, kids, calls, err, sumPc, sumErr,
                   result, pst, ptree, pout, cpc, frags, outfile, cerr, usage,
                   extVars>>

\* convert_to_yaml for section i raises
YamlFail(i) ==
    /\ pc[i] = "call"
    /\ pc' = [pc EXCEPT ![i] = "failed"]
    /\ order' = Append(order, i)
    /\ UNCHANGED <<doc, oracle, heap, orig, top, kids, calls, err, sumPc, sumErr,
                   result, pst, ptree, pout, cpc, frags, yaml_sections, outfile, cerr, usage,
                   extVars>>

\* convert, parse_file cannot read input_file: the except clause wraps the
\* error and convert raises before any section is prepared
ConvertReadFail ==
    /\ cpc = "idle"
    /\ cpc' = "raised"
    /\ cerr' = "read"
    /\ UNCHANGED <<doc, oracle, heap, orig, top, pc, kids, calls, order, err, sumPc,
                   sumErr, result, pst, ptree, pout, frags, yaml_sections, outfile, usage,
                   extVars>>

\* mutant: the file is opened for writing before the merge is known to succeed
ConvertJoinWritesFirst ==
    /\ cpc = "gather"
    /\ GatherDone(ConvertTasks)
    /\ LET merged_yaml ==
               _merge_yaml_sections([k \in 1..Len(frags) |->
                                        yaml_sections[GatherResult(ConvertTasks)[k]]])
       IN  IF merged_yaml.raised
           THEN /\ cpc' = "raised"
                /\ cerr' = "merge"
                /\ outfile' = Dump(<<>>)
           ELSE /\ cpc' = "written"
                /\ outfile' = merged_yaml.text
                /\ UNCHANGED cerr
    /\ UNCHANGED <<doc, oracle, heap, orig, top, pc, kids, calls, order, err, sumPc,
                   sumErr, result, pst, ptree, pout, frags, yaml_sections, usage,
                   extVars>>

\* convert resumes from gather with the replies: merge, then write, or raise
\* what the merge raised
ConvertJoin ==
    /\ cpc = "gather"
    /\ GatherDone(ConvertTasks)
    /\ LET merged_yaml ==
               _merge_yaml_sections([k \in 1..Len(frags) |->
                                        yaml_sections[GatherResult(ConvertTasks)[k]]])
       IN  IF merged_yaml.raised
           THEN /\ cpc' = "raised"
                /\ cerr' = "merge"
                /\ UNCHANGED outfile
           ELSE /\ cpc' = "written"
                /\ outfile' = merged_yaml.text
                /\ UNCHANGED cerr
    /\ UNCHANGED <<doc, oracle, heap, orig, top, pc, kids, calls, order, err, sumPc,
                   sumErr, result, pst, ptree, pout, frags, yaml_sections, usage,
                   extVars>>

\* convert resumes from gather with the exception of a call and raises
ConvertRaise ==
    /\ cpc = "gather"
    /\ GatherFailed(ConvertTasks)
    /\ cpc' = "raised"
    /\ cerr' = "oracle"
    /\ UNCHANGED <<doc, oracle, heap, orig, top, pc, kids, calls, order, err, sumPc,
                   sumErr, result, pst, ptree, pout, frags, yaml_sections, outfile, usage,
                   extVars>>

InitConvert ==
    /\ doc \in Docs(ConvVocab, MaxConvLines)
    /\ oracle = "identity"
    /\ heap = <<>>
    /\ orig = [refs |-> <<>>, objs |-> <<>>]
    /\ top = <<>>
    /\ pc = <<>>
    /\ kids = <<>>
    /\ calls = <<>>
    /\ order = <<>>
    /\ err = <<>>
    /\ sumPc = "off"
    /\ sumErr = 0
    /\ result = <<>>
    /\ pst = "off"
    /\ ptree = <<>>
    /\ pout = <<>>
    /\ cpc = "idle"
    /\ frags = <<>>
    /\ yaml_sections = <<>>
    /\ outfile = <<>>
    /\ cerr = "none"
    /\ usage = ZeroUsage
    /\ ExtOff

NextConvert ==
    \/ ConvertStart
    \/ ConvertReadFail
    \/ ConvertJoin
    \/ ConvertRaise
    \/ \E i \in DOMAIN frags :
          \/ YamlReturn(i)
          \/ YamlFail(i)

SpecConvert == InitConvert /\ [][NextConvert]_vars

----------------------------------------------------------------------------
(* The flat split alone, on a wider set of documents                       *)

MaxFlatLines == 4

FlatVocab == {HeadA, SubD, SubSubB, TextX, BlankLine, FenceLine}

\* sections = self.md_parser.parse_file(input_file)
FlatStep ==
    /\ pst = "input"
    /\ frags' = parse_file(doc)
    /\ pst' = "split"
    /\ UNCHANGED <<doc, oracle, heap, orig, top, pc, kids, calls, order, err, sumPc,
                   sumErr, result, ptree, pout, cpc, yaml_sections, outfile, cerr, usage,
                   extVars>>

InitFlat ==
    /\ doc \in Docs(FlatVocab, MaxFlatLines)
    /\ oracle = "identity"
    /\ heap = <<>>
    /\ orig = [refs |-> <<>>, objs |-> <<>>]
    /\ top = <<>>
    /\ pc = <<>>
    /\ kids = <<>>
    /\ calls = <<>>
    /\ order = <<>>
    /\ err = <<>>
    /\ sumPc = "off"
    /\ sumErr = 0
    /\ result = <<>>
    /\ pst = "input"
    /\ ptree = <<>>
    /\ pout = <<>>
    /\ cpc = "off"
    /\ frags = <<>>
    /\ yaml_sections = <<>>
    /\ outfile = <<>>
    /\ cerr = "none"
    /\ usage = ZeroUsage
    /\ ExtOff

NextFlat == FlatStep

SpecFlat == InitFlat /\ [][NextFlat]_vars

----------------------------------------------------------------------------
(* OpenAIClient.summarize_section, called on its own                       *)

MaxClientLines == 2

\* the summarizer, the parser and the converter are not running
PipelinesOff ==
    /\ doc = <<>>
    /\ oracle = "identity"
    /\ heap = <<>>
    /\ orig = [refs |-> <<>>, objs |-> <<>>]
    /\ top = <<>>
    /\ pc = <<>>
    /\ kids = <<>>
    /\ calls = <<>>
    /\ order = <<>>
    /\ err = <<>>
    /\ sumPc = "off"
    /\ sumErr = 0
    /\ result = <<>>
    /\ pst = "off"
    /\ ptree = <<>>
    /\ pout = <<>>
    /\ cpc = "off"
    /\ frags = <<>>
    /\ yaml_sections = <<>>
    /\ outfile = <<>>
    /\ cerr = "none"
    /\ usage = ZeroUsage

\* MODEL_CONTEXT_WINDOW of the default model
max_tokens == 16385

\* count_tokens, one token for a character here
count_tokens(text) == Tokens(text)

\* mutant: only the empty string is refused
ContentMissingEmptyOnly(content) == content = <<>>

\* not content or not content.strip()
ContentMissing(content) == content = <<>> \/ Strip(content) = <<>>

\* the number of # characters of s from position p on
RECURSIVE HashRun(_, _)
HashRun(s, p) ==
    IF p <= Len(s) /\ s[p] = "#" THEN 1 + HashRun(s, p + 1) ELSE 0

\* re.sub(r'^#{1,6}\s', header_marker + ' ', result, flags=re.MULTILINE),
\* from position p on
RECURSIVE ForceFrom(_, _, _)
ForceFrom(s, p, header_marker) ==
    IF p > Len(s) THEN <<>>
    ELSE LET run == HashRun(s, p)
             at_start == p = 1 \/ s[p - 1] = "\n"
         IN  IF /\ at_start
                /\ run \in 1..MaxHeadingLevel
                /\ p + run <= Len(s)
                /\ s[p + run] \in Whitespace
             THEN header_marker \o <<" ">> \o ForceFrom(s, p + run + 1, header_marker)
             ELSE <<s[p]>> \o ForceFrom(s, p + 1, header_marker)

\* lines 100-102: every header of the answer gets the level of the section
ForceHeaderLevels(answer, level) == ForceFrom(answer, 1, Repeat("#", level))

ClientVocab == {TextX, BlankLine, <<"\t">>, HeadA}

\* what the model may answer
ClientReplies == {TextX, Join(<<SubD, TextX>>, <<"\n">>), Join(<<TextX, SubSubB>>, <<"\n">>)}

NoError == "none"

EmptyContentError == "content cannot be empty"

TooLongError == "exceeds model maximum"

\* summarize_section up to its await: the two checks, then the request
ClientCall ==
    /\ cst = "idle"
    /\ IF ContentMissing(req.content)
       THEN /\ cst' = "raised"
            /\ cout' = [error |-> EmptyContentError, text |-> <<>>]
            /\ UNCHANGED sent
       ELSE IF count_tokens(req.content) > max_tokens
       THEN /\ cst' = "raised"
            /\ cout' = [error |-> TooLongError, text |-> <<>>]
            /\ UNCHANGED sent
       ELSE /\ cst' = "sent"
            /\ sent' = sent + 1
            /\ UNCHANGED cout
    /\ UNCHANGED <<doc, oracle, heap, orig, top, pc, kids, calls, order, err, sumPc,
                   sumErr, result, pst, ptree, pout, convVars, usage, req, macc, mst,
                   mlog>>

\* the model answers: lines 98-103
ClientReturn ==
    /\ cst = "sent"
    /\ \E answer \in ClientReplies :
          cout' = [error |-> NoError, text |-> ForceHeaderLevels(answer, req.level)]
    /\ cst' = "returned"
    /\ UNCHANGED <<doc, oracle, heap, orig, top, pc, kids, calls, order, err, sumPc,
                   sumErr, result, pst, ptree, pout, convVars, usage, req, sent, macc,
                   mst, mlog>>

\* the request fails: the exception of the API leaves summarize_section
ClientFail ==
    /\ cst = "sent"
    /\ cst' = "failed"
    /\ UNCHANGED <<doc, oracle, heap, orig, top, pc, kids, calls, order, err, sumPc,
                   sumErr, result, pst, ptree, pout, convVars, usage, req, cout, sent,
                   macc, mst, mlog>>

InitClient ==
    /\ PipelinesOff
    /\ req \in [content : Docs(ClientVocab, MaxClientLines), level : 1..ImportantLevel]
    /\ cst = "idle"
    /\ cout = [error |-> NoError, text |-> <<>>]
    /\ sent = 0
    /\ macc = <<>>
    /\ mst = "off"
    /\ mlog = <<>>

NextClient ==
    \/ ClientCall
    \/ ClientReturn
    \/ ClientFail

SpecClient == InitClient /\ [][NextClient]_vars

----------------------------------------------------------------------------
(* MarkdownToYamlConverter._deep_merge, called on its own                  *)

MaxMerges == 3

TitleName == <<"t", "i", "t", "l", "e">>

ContentName == <<"c", "o", "n", "t", "e", "n", "t">>

\* title.lower().strip(), then replace(' ', '_')
TitleKey(title) ==
    LET stripped == Strip(Lower(title))
    IN  [i \in 1..Len(stripped) |-> IF stripped[i] = " " THEN "_" ELSE stripped[i]]

\* _deep_merge(dict1, dict2): [raised, dict], dict being dict1 as the call left
\* it; raised when the title is no string or when dict1[key] takes no item
RECURSIVE _deep_merge(_, _)
RECURSIVE MergeItems(_, _, _)

\* lines 144-148: the loop over dict2.items() from item i on
MergeItems(dict1, dict2, i) ==
    IF i > Len(dict2) THEN [raised |-> FALSE, dict |-> dict1]
    ELSE LET key == dict2[i][1]
             value == dict2[i][2]
         IN  IF /\ HasKey(dict1, key)
                /\ DictGet(dict1, key).kind = "map"
                /\ value.kind = "map"
             THEN LET sub == _deep_merge(DictGet(dict1, key).items, value.items)
                      merged == DictSet(dict1, key, YamlMap(sub.dict))
                  IN  IF sub.raised THEN [raised |-> TRUE, dict |-> merged]
                      ELSE MergeItems(merged, dict2, i + 1)
             ELSE MergeItems(DictSet(dict1, key, value), dict2, i + 1)

_deep_merge(dict1, dict2) ==
    IF HasKey(dict2, TitleName)
    THEN LET title == DictGet(dict2, TitleName)
         IN  IF title.kind # "scalar" THEN [raised |-> TRUE, dict |-> dict1]
             ELSE LET key == TitleKey(title.str)
                      with_key == IF HasKey(dict1, key) THEN dict1
                                  ELSE DictSet(dict1, key, YamlMap(<<>>))
                  IN  IF ~HasKey(dict2, ContentName)
                      THEN [raised |-> FALSE, dict |-> with_key]
                      ELSE IF DictGet(with_key, key).kind # "map"
                      THEN [raised |-> TRUE, dict |-> with_key]
                      ELSE [raised |-> FALSE,
                            dict |-> DictSet(with_key, key,
                                        YamlMap(DictSet(DictGet(with_key, key).items,
                                                        ContentName,
                                                        DictGet(dict2, ContentName))))]
    ELSE MergeItems(dict1, dict2, 1)

\* the fragments handed to _deep_merge as dict2
TitledC == << <<TitleName, YamlScalar(<<"S">>)>>, <<ContentName, YamlScalar(<<"c">>)>> >>

TitledD == << <<TitleName, YamlScalar(<<"S">>)>>, <<ContentName, YamlScalar(<<"d">>)>> >>

TitledOnly == << <<TitleName, YamlScalar(<<"S", " ", "D">>)>> >>

TitledNull == << <<TitleName, YamlNull>>, <<ContentName, YamlScalar(<<"c">>)>> >>

ScalarUnderS == << <<<<"s">>, YamlScalar(<<"x">>)>> >>

MapUnderS == << <<<<"s">>, YamlMap(<< <<<<"a">>, YamlScalar(<<"1">>)>> >>)>> >>

TitledUnderT == << <<<<"t">>, YamlMap(TitledC)>> >>

MergeFrags ==
    {TitledC, TitledD, TitledOnly, TitledNull, ScalarUnderS, MapUnderS, TitledUnderT}

\* one call of _deep_merge on the accumulator
DeepMergeCall ==
    /\ mst = "ok"
    /\ Len(mlog) < MaxMerges
    /\ \E dict2 \in MergeFrags :
          /\ mlog' = Append(mlog, [dict1 |-> macc, dict2 |-> dict2])
          /\ macc' = _deep_merge(macc, dict2).dict
          /\ mst' = IF _deep_merge(macc, dict2).raised THEN "raised" ELSE "ok"
    /\ UNCHANGED <<doc, oracle, heap, orig, top, pc, kids, calls, order, err, sumPc,
                   sumErr, result, pst, ptree, pout, convVars, usage, req, cst, cout,
                   sent>>

InitDeepMerge ==
    /\ PipelinesOff
    /\ req = <<>>
    /\ cst = "off"
    /\ cout = <<>>
    /\ sent = 0
    /\ macc = <<>>
    /\ mst = "ok"
    /\ mlog = <<>>

NextDeepMerge == DeepMergeCall

SpecDeepMerge == InitDeepMerge /\ [][NextDeepMerge]_vars

----------------------------------------------------------------------------
(* Vocabulary of the properties                                            *)

\* the Section objects as parsed, each non-empty content replaced by the
\* oracle's answer to it
Expected(objs) ==
    [id \in 1..Len(objs) |->
        IF objs[id].content # <<>>
        THEN [objs[id] EXCEPT !.content = Oracle(oracle, @)]
        ELSE objs[id]]

\* the Sections below Section id in the tree parse returned
RECURSIVE Descendants(_)
Descendants(id) ==
    LET cs == {orig.objs[id].sections[i][2] : i \in 1..Len(orig.objs[id].sections)}
    IN  cs \cup UNION {Descendants(c) : c \in cs}

\* the position at which coroutine id finished
FinishedAt(id) == CHOOSE k \in 1..Len(order) : order[k] = id

\* the Sections whose own oracle request failed
FailedCalls == {id \in DOMAIN heap : pc[id] = "failed" /\ err[id] = id}

\* the text is empty or holds only whitespace
BlankText(text) == \A i \in 1..Len(text) : text[i] \in Whitespace

\* the line is a heading line: 1 to 6 markers, whitespace, a title
HeadingLike(line) == HeadingDepth(Strip(line)) > 0

\* the title of a heading line
LineTitle(line) == HeadingTitle(Strip(line), HeadingDepth(Strip(line)))

\* the heading lines of a text, in order
HeadingLinesOf(text) ==
    LET lines == SplitLines(text)
        F[i \in 0..Len(lines)] ==
            IF i = 0 THEN <<>>
            ELSE IF HeadingLike(lines[i]) THEN Append(F[i - 1], lines[i])
            ELSE F[i - 1]
    IN  F[Len(lines)]

TitlesOf(text) ==
    LET hs == HeadingLinesOf(text) IN [i \in 1..Len(hs) |-> LineTitle(hs[i])]

\* every heading of the text has the same depth: no nested headings
FlatHeadings(text) ==
    LET hs == HeadingLinesOf(text)
    IN  \A i, j \in 1..Len(hs) :
            HeadingDepth(Strip(hs[i])) = HeadingDepth(Strip(hs[j]))

Distinct(seq) == \A i, j \in 1..Len(seq) : i # j => seq[i] # seq[j]

\* the line starts with the marker, leading whitespace aside
IsFenceLine(line, marker) == StartsWith(Strip(line), marker)

\* line i lies between an opening and a closing line of the marker
InsideFence(lines, i, marker) ==
    /\ ~IsFenceLine(lines[i], marker)
    /\ Cardinality({j \in 1..(i - 1) : IsFenceLine(lines[j], marker)}) % 2 = 1
    /\ \E j \in (i + 1)..Len(lines) : IsFenceLine(lines[j], marker)

\* line i comes after an odd number of fence lines: in_code_block is set
InCodeBlock(lines, i) ==
    Cardinality({j \in 1..(i - 1) : IsFenceLine(lines[j], Fence)}) % 2 = 1

\* the lines of the text that the scanning loops take for headings
OpenHeadings(text) ==
    LET lines == SplitLines(text)
    IN  {i \in 1..Len(lines) :
            /\ HeadingLike(lines[i])
            /\ ~IsFenceLine(lines[i], Fence)
            /\ ~InCodeBlock(lines, i)}

\* the line is indented by four spaces or a tab
IndentedCode(line) ==
    StartsWith(line, <<" ", " ", " ", " ">>) \/ StartsWith(line, <<"\t">>)

\* every Section of a tree, at any depth
RECURSIVE SectionsOf(_)
SectionsOf(d) ==
    UNION {{d[k][2]} \cup SectionsOf(d[k][2].sections) : k \in 1..Len(d)}

RECURSIVE CountSections(_)
CountSections(d) ==
    IF d = <<>> THEN 0
    ELSE 1 + CountSections(Head(d)[2].sections) + CountSections(Tail(d))

\* parse found no heading and returned the whole text as one root Section
RootOnly(tree, text) ==
    tree = << <<RootName, [title |-> RootName, content |-> text,
                           level |-> 1, sections |-> <<>>]>> >>

----------------------------------------------------------------------------
(* Properties of summarize, checked under Spec                             *)

\* C1: when summarize returns, every key of the processed dicts, at the top
\* and in every Section, still refers to the Section it referred to after
\* parsing, whatever the order in which the coroutines finished, and the
\* returned text is the flattening of the parsed tree with each content
\* replaced by the oracle's answer: the contents come out in source order.
C1_ResultsKeptInSourceOrder ==
    sumPc = "returned" =>
        /\ top = orig.refs
        /\ \A id \in DOMAIN heap : heap[id].sections = orig.objs[id].sections
        /\ result = _combine_sections(Deref(Expected(orig.objs), orig.refs))

\* C1 witness: summarize has returned for three or more top-level sections, two
\* of them with different contents, the later one having finished first.
C1_Witness ==
    /\ sumPc = "returned"
    /\ Len(top) >= 3
    /\ \E i, j \in 1..Len(top) :
          /\ i < j
          /\ FinishedAt(top[j][2]) < FinishedAt(top[i][2])
          /\ heap[top[i][2]].content # heap[top[j][2]].content
          /\ heap[top[i][2]].content # <<>>

\* C2: an oracle request for a Section has been issued only if the coroutines
\* of all its descendants have returned.
C2_ChildrenBeforeParent ==
    \A id \in DOMAIN heap :
        calls[id] > 0 => \A d \in Descendants(id) : pc[d] = "done"

\* C2 witness: the oracle is being asked for a Section that has a child and a
\* grandchild which were themselves summarized by the oracle.
C2_Witness ==
    \E id \in DOMAIN heap :
        /\ pc[id] = "call"
        /\ \E c \in Descendants(id) :
              /\ calls[c] > 0
              /\ \E g \in Descendants(c) : calls[g] > 0

\* C3: summarize returns only if no oracle request failed and every Section
\* was processed; if it raises, it raises the failure of an oracle request
\* and has returned no text; and once an oracle request has failed the run
\* cannot come to rest before summarize has raised.
C3_FailureFailsSummarize ==
    /\ sumPc = "returned" =>
          /\ FailedCalls = {}
          /\ \A id \in DOMAIN heap : pc[id] = "done"
    /\ sumPc = "raised" => sumErr \in FailedCalls /\ result = <<>>
    /\ (FailedCalls # {} /\ ~ENABLED Next) => sumPc = "raised"

\* C3 witness: summarize has raised for sibling sections, one of whose oracle
\* requests failed while another one's had already been answered.
C3_Witness ==
    /\ sumPc = "raised"
    /\ Len(top) >= 2
    /\ Cardinality(FailedCalls) = 1
    /\ \E k \in 1..Len(top) : pc[top[k][2]] = "done" /\ calls[top[k][2]] = 1

\* C4: when summarize returns, the processed tree is the parsed tree with the
\* same keys in the same order, the same titles and levels, and each
\* non-empty content replaced by the oracle's answer to that content.
C4_SameShape ==
    sumPc = "returned" =>
        Deref(heap, top) = Deref(Expected(orig.objs), orig.refs)

\* C4 witness: summarize has returned for a tree with a nested Section, under
\* an oracle that changes the text.
C4_Witness ==
    /\ sumPc = "returned"
    /\ oracle = "tag"
    /\ Len(top) >= 2
    /\ \E id \in DOMAIN heap : heap[id].sections # <<>>

\* C5: the oracle is asked at most once per Section and never for a Section
\* whose content is empty, which stays empty and does not fail; when summarize
\* returns, it was asked exactly once for every Section with content.
C5_OneCallPerContent ==
    \A id \in DOMAIN heap :
        /\ calls[id] <= 1
        /\ orig.objs[id].content = <<>> =>
              /\ calls[id] = 0
              /\ heap[id].content = <<>>
              /\ id \notin FailedCalls
        /\ (sumPc = "returned" /\ orig.objs[id].content # <<>>) => calls[id] = 1

\* C5 witness: summarize has returned for a tree with a Section without
\* content and a Section with content.
C5_Witness ==
    /\ sumPc = "returned"
    /\ \E id \in DOMAIN heap : orig.objs[id].content = <<>>
    /\ \E id \in DOMAIN heap : calls[id] = 1

\* C6: for an empty or whitespace-only document parse returns an empty dict,
\* no oracle request is ever issued, summarize does not raise, it can always
\* go on to return, and what it returns is the empty string.
C6_BlankInput ==
    BlankText(doc) =>
        /\ sumPc # "idle" => orig.refs = <<>> /\ heap = <<>>
        /\ sumPc = "gather" => ENABLED SummarizeJoin
        /\ sumPc # "raised"
        /\ sumPc = "returned" => result = <<>>

\* C6 witness: summarize has returned for a document of whitespace.
C6_Witness ==
    /\ doc # <<>>
    /\ BlankText(doc)
    /\ sumPc = "returned"

\* C7 as stated: for a document with headings, all of the same depth and with
\* pairwise distinct titles, summarize with the identity oracle returns a text
\* whose heading lines carry the same titles in the same order.
C7_DistinctTitlesRoundTrip ==
    (/\ sumPc = "returned"
     /\ oracle = "identity"
     /\ TitlesOf(doc) # <<>>
     /\ FlatHeadings(doc)
     /\ Distinct(TitlesOf(doc)))
    => TitlesOf(result) = TitlesOf(doc)

\* C7 amended: the same, for titles that normalize to pairwise distinct keys.
C7_DistinctKeysRoundTrip ==
    (/\ sumPc = "returned"
     /\ oracle = "identity"
     /\ TitlesOf(doc) # <<>>
     /\ FlatHeadings(doc)
     /\ Distinct([i \in 1..Len(TitlesOf(doc)) |-> _make_key(TitlesOf(doc)[i])]))
    => TitlesOf(result) = TitlesOf(doc)

\* C7 witness: summarize with the identity oracle has returned for a document
\* of three headings of the same depth with distinct keys.
C7_Witness ==
    /\ sumPc = "returned"
    /\ oracle = "identity"
    /\ FlatHeadings(doc)
    /\ Len(TitlesOf(doc)) = 3
    /\ Distinct([i \in 1..Len(TitlesOf(doc)) |-> _make_key(TitlesOf(doc)[i])])

----------------------------------------------------------------------------
(* Properties of parse, checked under SpecParse                            *)

\* C8: every Section of the parsed tree takes its title from a heading line
\* that does not lie between an opening and a closing ``` line, and the tree
\* has no more Sections than the document has such lines (one when it has a
\* single one, whatever the fenced lines look like).
C8_FencedHeadingNoSection ==
    pst # "input" =>
        LET lines == SplitLines(doc)
            open == {i \in 1..Len(lines) :
                        HeadingLike(lines[i]) /\ ~InsideFence(lines, i, Fence)}
        IN  \/ RootOnly(ptree, doc)
            \/ /\ \A s \in SectionsOf(ptree) :
                     \E i \in open : LineTitle(lines[i]) = s.title
               /\ CountSections(ptree) <= Cardinality(open)

\* C8 witness: a document that starts with a heading and has a heading line
\* between two ``` lines was parsed into exactly one Section.
C8_Witness ==
    /\ pst = "parsed"
    /\ LET lines == SplitLines(doc)
       IN  /\ lines # <<>>
           /\ HeadingLike(lines[1])
           /\ \E i \in 1..Len(lines) :
                 HeadingLike(lines[i]) /\ InsideFence(lines, i, Fence)
    /\ CountSections(ptree) = 1

\* C9 as stated: every Section of the parsed tree takes its title from a
\* heading line that neither lies between two ~~~ lines nor is indented by
\* four spaces or a tab.
C9_TildeOrIndentNoSection ==
    pst # "input" =>
        LET lines == SplitLines(doc)
            open == {i \in 1..Len(lines) :
                        /\ HeadingLike(lines[i])
                        /\ ~InsideFence(lines, i, TildeLine)
                        /\ ~IndentedCode(lines[i])}
        IN  \/ RootOnly(ptree, doc)
            \/ \A s \in SectionsOf(ptree) :
                  \E i \in open : LineTitle(lines[i]) = s.title

\* C10 as stated: no line of a Section's content is the heading line of one
\* of its children.
C10_NoChildHeadingInContent ==
    pst # "input" =>
        \A s \in SectionsOf(ptree) :
            \A k \in 1..Len(s.sections) :
                LET lines == SplitLines(s.content)
                IN  \A i \in 1..Len(lines) :
                        ~(/\ HeadingLike(lines[i])
                          /\ LineTitle(lines[i]) = s.sections[k][2].title)

----------------------------------------------------------------------------
(* Properties of _combine_sections, checked under SpecCombine              *)

\* the heading line of a Section: its level in markers, a space, its title
HeadingLine(s) == Repeat("#", s.level) \o <<" ">> \o s.title

\* the segments of a text: its parts between blank-line separators
RECURSIVE Segments(_)
Segments(text) ==
    IF text = <<>> THEN <<>>
    ELSE LET cut == {i \in 1..(Len(text) - 1) : text[i] = "\n" /\ text[i + 1] = "\n"}
         IN  IF cut = {} THEN <<text>>
             ELSE <<SubSeq(text, 1, MinOf(cut) - 1)>>
                  \o Segments(SubSeq(text, MinOf(cut) + 2, Len(text)))

\* a is a subsequence of b
RECURSIVE IsSubseq(_, _)
IsSubseq(a, b) ==
    IF a = <<>> THEN TRUE
    ELSE IF b = <<>> THEN FALSE
    ELSE IF Head(a) = Head(b) THEN IsSubseq(Tail(a), Tail(b))
    ELSE IsSubseq(a, Tail(b))

\* the first segment the flattening of a Section emits: its heading line,
\* or that of its first child when it is a deep Section with children
RECURSIVE FirstOut(_)
FirstOut(s) ==
    IF s.sections = <<>> \/ s.level <= 2 THEN HeadingLine(s)
    ELSE FirstOut(s.sections[1][2])

\* the first segments of the children of a Section, in insertion order
ChildrenFirstOut(s) == [k \in 1..Len(s.sections) |-> FirstOut(s.sections[k][2])]

\* the number of segments a tree accounts for: heading and separator of every
\* leaf, its content when not blank, the heading of every Section of level 1
\* or 2 with children, nothing for a deeper Section with children
RECURSIVE SegmentCount(_)
SegmentCount(d) ==
    IF d = <<>> THEN 0
    ELSE LET s == Head(d)[2]
             own == IF s.sections = <<>>
                    THEN (IF BlankText(s.content) THEN 2 ELSE 3)
                    ELSE IF s.level <= 2 THEN 1 ELSE 0
         IN  own + SegmentCount(s.sections) + SegmentCount(Tail(d))

\* C14: in the text _combine_sections returns, every Section without children
\* appears as its heading line, then its content when not blank, then the
\* separator, as consecutive segments; no segment is blank; the segments are
\* joined by a blank line.
C14_LeafHeadingContentSeparator ==
    pst = "combined" =>
        LET segs == Segments(pout)
        IN  /\ \A k \in 1..Len(segs) : ~BlankText(segs[k])
            /\ pout = Join(segs, <<"\n", "\n">>)
            /\ \A s \in SectionsOf(ptree) :
                  s.sections = <<>> =>
                      \E k \in 1..Len(segs) :
                          /\ segs[k] = HeadingLine(s)
                          /\ IF BlankText(s.content)
                             THEN /\ k + 1 <= Len(segs)
                                  /\ segs[k + 1] = Separator
                             ELSE /\ k + 2 <= Len(segs)
                                  /\ segs[k + 1] = s.content
                                  /\ segs[k + 2] = Separator

\* C14 witness: a tree with a leaf without content and a leaf with content on
\* several lines was combined.
C14_Witness ==
    /\ pst = "combined"
    /\ \E s \in SectionsOf(ptree) : s.sections = <<>> /\ s.content = <<>>
    /\ \E s \in SectionsOf(ptree) :
          s.sections = <<>> /\ Len(SplitLines(s.content)) >= 2

\* C15: in the text _combine_sections returns, every Section of level 1 or 2
\* with children appears as its heading line followed at once by the first
\* segment of its first child, not by its own content, and the first segments
\* of its children follow in insertion order.
C15_ShallowParentHeadingOnly ==
    pst = "combined" =>
        LET segs == Segments(pout)
        IN  \A s \in SectionsOf(ptree) :
                (s.sections # <<>> /\ s.level <= 2) =>
                    \E k \in 1..(Len(segs) - 1) :
                        /\ segs[k] = HeadingLine(s)
                        /\ segs[k + 1] = FirstOut(s.sections[1][2])
                        /\ IsSubseq(ChildrenFirstOut(s),
                                    SubSeq(segs, k + 1, Len(segs)))

\* C15 witness: a Section of level 1 with text of its own before its two
\* children was combined.
C15_Witness ==
    /\ pst = "combined"
    /\ \E s \in SectionsOf(ptree) :
          /\ s.level = 1
          /\ Len(s.sections) = 2
          /\ s.content # <<>>
          /\ ~HeadingLike(SplitLines(s.content)[1])

----------------------------------------------------------------------------
(* Further properties of parse, checked under SpecParse                    *)

\* C11: in the tree parse returns every top-level Section has level 1 and
\* every child Section has the level of its parent plus one, whatever the
\* depth of the shallowest heading of the document.
C11_LevelsNormalized ==
    pst # "input" =>
        /\ \A k \in 1..Len(ptree) : ptree[k][2].level = 1
        /\ \A s \in SectionsOf(ptree) :
              \A k \in 1..Len(s.sections) : s.sections[k][2].level = s.level + 1

\* C11 witness: a document whose shallowest heading has two markers or more
\* was parsed into a Section with a child Section.
C11_Witness ==
    /\ pst = "parsed"
    /\ OpenHeadings(doc) # {}
    /\ \A i \in OpenHeadings(doc) : HeadingDepth(Strip(SplitLines(doc)[i])) >= 2
    /\ \E s \in SectionsOf(ptree) : s.sections # <<>>

\* C12 as stated: when a heading of depth 1 is followed, with no heading in
\* between, by a heading of depth 3, the Section of the first has a child
\* Section of level 2 with the title of the second.
C12_SkippedLevelPromoted ==
    pst # "input" =>
        LET lines == SplitLines(doc)
            open == OpenHeadings(doc)
        IN  \A i, j \in open :
                (/\ i < j
                 /\ \A m \in open : ~(i < m /\ m < j)
                 /\ HeadingDepth(Strip(lines[i])) = 1
                 /\ HeadingDepth(Strip(lines[j])) = 3
                 /\ \A m \in open : m > i =>
                        _make_key(LineTitle(lines[m])) # _make_key(LineTitle(lines[i])))
                => \E k \in 1..Len(ptree) :
                      /\ ptree[k][2].title = LineTitle(lines[i])
                      /\ ptree[k][2].level = 1
                      /\ \E c \in 1..Len(ptree[k][2].sections) :
                            /\ ptree[k][2].sections[c][2].title = LineTitle(lines[j])
                            /\ ptree[k][2].sections[c][2].level = 2

\* C13: for a document that is not blank and has no heading outside a code
\* block, parse returns exactly one Section, keyed and titled root, of level 1,
\* without children, whose content is the whole text, unstripped.
C13_NoHeadingRoot ==
    (/\ pst # "input"
     /\ ~BlankText(doc)
     /\ OpenHeadings(doc) = {})
    => RootOnly(ptree, doc)

\* C13 witness: a document that starts with a blank line and whose only
\* heading line lies in a code block was parsed into the root Section.
C13_Witness ==
    /\ pst = "parsed"
    /\ doc # <<>>
    /\ doc[1] = " "
    /\ OpenHeadings(doc) = {}
    /\ \E i \in 1..Len(SplitLines(doc)) : HeadingLike(SplitLines(doc)[i])
    /\ RootOnly(ptree, doc)

----------------------------------------------------------------------------
(* Properties of the converter, checked under SpecConvert                  *)

\* what yaml.safe_load makes of the answer for section k
Loaded(k) == safe_load(_clean_yaml_response(yaml_sections[k]))

\* the answers that are non-empty mappings, in the order of their sections
MergedMaps ==
    LET IsMap(v) == v.kind = "map" /\ v.items # <<>>
    IN  SelectSeq([k \in 1..Len(yaml_sections) |-> Loaded(k)], IsMap)

\* the deep merge of the pairs b into the mapping a: mappings under the same
\* key are merged key by key, any other value overwrites
RECURSIVE DeepMerge(_, _)
DeepMerge(a, b) ==
    IF b = <<>> THEN a
    ELSE LET k == b[1][1]
             v == b[1][2]
             both == /\ HasKey(a, k)
                     /\ DictGet(a, k).kind = "map"
                     /\ v.kind = "map"
             merged == IF both THEN YamlMap(DeepMerge(DictGet(a, k).items, v.items))
                       ELSE v
         IN  DeepMerge(DictSet(a, k, merged), Tail(b))

RECURSIVE DeepMergeAll(_)
DeepMergeAll(maps) ==
    IF maps = <<>> THEN <<>>
    ELSE DeepMerge(DeepMergeAll(SubSeq(maps, 1, Len(maps) - 1)),
                   maps[Len(maps)].items)

\* the shallow merge: every top-level key holds the value of the last mapping
\* that has it
RECURSIVE OverwriteAll(_)
OverwriteAll(maps) ==
    IF maps = <<>> THEN <<>>
    ELSE LET before == OverwriteAll(SubSeq(maps, 1, Len(maps) - 1))
             last == maps[Len(maps)].items
             F[i \in 0..Len(last)] ==
                 IF i = 0 THEN before ELSE DictSet(F[i - 1], last[i][1], last[i][2])
         IN  F[Len(last)]

\* the scalars found anywhere in a value
RECURSIVE Leaves(_)
Leaves(v) ==
    IF v.kind = "scalar" THEN {v.str}
    ELSE UNION {Leaves(v.items[i][2]) : i \in 1..Len(v.items)}

\* the top-level keys of a YAML text, in the order of its lines
TopKeys(text) ==
    LET lines == Split(text, "\n")
        IsKeyLine(l) == l # <<>> /\ Indent(l) = 0 /\ KeyMarks(l) # {}
        keyLines == SelectSeq(lines, IsKeyLine)
    IN  [i \in 1..Len(keyLines) |->
            SubSeq(keyLines[i], 1, MinOf(KeyMarks(keyLines[i])) - 1)]

\* the keys of a list of mappings in the order of their first occurrence
RECURSIVE FirstKeys(_)
FirstKeys(maps) ==
    IF maps = <<>> THEN <<>>
    ELSE LET before == FirstKeys(SubSeq(maps, 1, Len(maps) - 1))
             last == Keys(maps[Len(maps)].items)
             F[i \in 0..Len(last)] ==
                 IF i = 0 THEN before
                 ELSE IF \E j \in 1..Len(F[i - 1]) : F[i - 1][j] = last[i]
                      THEN F[i - 1]
                      ELSE Append(F[i - 1], last[i])
         IN  F[Len(last)]

\* C17 as stated: the mapping written is the deep merge of the mappings the
\* sections were answered with, in the order of the sections: nested keys of
\* all of them are kept, and a value overwrites only where the two values are
\* not both mappings.
C17_MergeIsDeep ==
    cpc = "written" => safe_load(outfile).items = DeepMergeAll(MergedMaps)

\* C18 as stated: an answer that does not parse as a mapping never makes the
\* merge fail, and the mapping written is the merge of all the other answers.
C18_UnparsableFragmentSkipped ==
    /\ cerr # "merge"
    /\ cpc = "written" => safe_load(outfile).items = OverwriteAll(MergedMaps)

\* C19 as stated: for a document of two sections with the same heading whose
\* answers are mappings with the same single key holding a mapping, the
\* mapping written holds one mapping under that key and every scalar of both
\* answers is still in it.
C19_SameTitleKeepsBoth ==
    (/\ cpc = "written"
     /\ Len(frags) = 2
     /\ SplitLines(frags[1])[1] = SplitLines(frags[2])[1]
     /\ HeadingLike(SplitLines(frags[1])[1])
     /\ \A k \in 1..2 :
           /\ Loaded(k).kind = "map"
           /\ Len(Loaded(k).items) = 1
           /\ Loaded(k).items[1][2].kind = "map"
     /\ Loaded(1).items[1][1] = Loaded(2).items[1][1])
    => LET out == safe_load(outfile).items
           key == Loaded(1).items[1][1]
       IN  /\ Keys(out) = <<key>>
           /\ DictGet(out, key).kind = "map"
           /\ Leaves(Loaded(1)) \cup Leaves(Loaded(2)) \subseteq Leaves(DictGet(out, key))

\* C20: the top-level keys of the text convert writes stand in the order of
\* their first occurrence in the answers taken in the order of the sections,
\* whatever the order in which the calls returned.
C20_KeysInFirstOccurrenceOrder ==
    cpc = "written" => TopKeys(outfile) = FirstKeys(MergedMaps)

\* C20 witness: three sections answered with the keys t, s and t again, the
\* calls having returned in the reverse order, and the text was written.
C20_Witness ==
    /\ cpc = "written"
    /\ Len(frags) = 3
    /\ order = <<3, 2, 1>>
    /\ \A k \in 1..3 : Loaded(k).kind = "map" /\ Loaded(k).items # <<>>
    /\ Loaded(1).items[1][1] = <<"t">>
    /\ Loaded(2).items[1][1] = <<"s">>
    /\ Loaded(3).items[1][1] = <<"t">>
    /\ Loaded(3) # Loaded(1)

\* C24: the usage counter of the agent loses no update: whatever the order in
\* which the calls completed, requests is the number of completed calls and
\* each token total is the sum of the amounts of the completed calls
RECURSIVE SumOver(_, _)
SumOver(ids, f) ==
    IF ids = {} THEN 0
    ELSE LET id == CHOOSE x \in ids : TRUE
         IN  f[id] + SumOver(ids \ {id}, f)

CompletedCalls == {id \in DOMAIN pc : pc[id] = "done" /\ calls[id] > 0}

SentTokens == [id \in DOMAIN pc |-> Tokens(orig.objs[id].content)]

ReplyTokens == [id \in DOMAIN pc |-> Tokens(Oracle(oracle, orig.objs[id].content))]

C24_UsageLosesNoUpdate ==
    sumPc \in {"gather", "returned", "raised"} =>
        /\ usage.requests = Cardinality(CompletedCalls)
        /\ usage.request_tokens = SumOver(CompletedCalls, SentTokens)
        /\ usage.response_tokens = SumOver(CompletedCalls, ReplyTokens)
        /\ usage.total_tokens =
              SumOver(CompletedCalls, SentTokens) + SumOver(CompletedCalls, ReplyTokens)
              + Cardinality(CompletedCalls)
                  * (system_prompt_tokens + document_prompt_tokens)

\* three calls completed in an order that is not the order of the source,
\* none is in flight
C24_Witness ==
    /\ sumPc = "returned"
    /\ Cardinality(CompletedCalls) >= 3
    /\ \E i, j \in 1..Len(order) : i < j /\ order[i] > order[j]
                                      /\ {order[i], order[j]} \subseteq CompletedCalls
    /\ \A id \in DOMAIN pc : pc[id] # "call"

\* C29: a failure cancels no other branch: once summarize has raised, every
\* coroutine that has not finished can still take its next step, a started one
\* starts, a pending oracle call returns and overwrites the content of its
\* Section, a parent whose children have finished goes on to its own call
C29_FailureCancelsNoSibling ==
    sumPc = "raised" =>
        \A id \in DOMAIN pc :
            /\ pc[id] = "new" => ENABLED TaskStart(id)
            /\ pc[id] = "call" => ENABLED OracleReturn(id)
            /\ pc[id] = "gather" /\ GatherDone(Values(heap[id].sections))
                   => ENABLED TaskJoin(id)
            /\ pc[id] = "gather" /\ GatherFailed(Values(heap[id].sections))
                   => ENABLED TaskJoinFail(id)

\* summarize has raised for the failed call of one section while a sibling
\* parent, its children finished, has not yet sent its own content to the
\* oracle and is about to
C29_Witness ==
    /\ sumPc = "raised"
    /\ \E id \in DOMAIN pc :
          /\ pc[id] = "gather"
          /\ heap[id].sections # <<>>
          /\ GatherDone(Values(heap[id].sections))
          /\ ShouldSummarize(heap[id].content)
          /\ calls[id] = 0
          /\ ENABLED TaskJoin(id)
    /\ \E id \in DOMAIN pc : pc[id] = "failed" /\ err[id] = id /\ sumErr = id

\* C28: no blank content reaches the oracle: the content of every Section
\* built by parse is the empty string or holds a character that is not
\* whitespace, and a call is issued only for a Section whose content is not
\* blank
C28_NoBlankContentToOracle ==
    sumPc \in {"gather", "returned", "raised"} =>
        \A id \in DOMAIN pc :
            /\ orig.objs[id].content = <<>> \/ ~BlankText(orig.objs[id].content)
            /\ calls[id] > 0 => ~BlankText(orig.objs[id].content)
            /\ pc[id] = "call" => ~BlankText(heap[id].content)

\* a heading is followed by whitespace lines only: its Section has the empty
\* content and is finished without a call, while the call of another Section,
\* whose content keeps an inner blank line, is in flight
C28_Witness ==
    /\ sumPc = "gather"
    /\ \E i \in 1..(Len(SplitLines(doc)) - 1) :
          /\ HeadingLike(SplitLines(doc)[i])
          /\ BlankText(SplitLines(doc)[i + 1])
          /\ i + 1 = Len(SplitLines(doc)) \/ HeadingLike(SplitLines(doc)[i + 2])
    /\ \E id \in DOMAIN pc :
          pc[id] = "done" /\ calls[id] = 0 /\ orig.objs[id].content = <<>>
    /\ \E id \in DOMAIN pc :
          /\ pc[id] = "call"
          /\ \E k \in 1..Len(heap[id].content) : heap[id].content[k] \in Whitespace

\* C27: sibling headings whose titles normalize to the same key leave exactly
\* one Section under that key, at every level of the tree, and it is the one
\* built from the last of them: its title and its content are those of the
\* last heading
SiblingHeadings(text, depth) ==
    {i \in OpenHeadings(text) : HeadingDepth(Strip(SplitLines(text)[i])) = depth}

\* the lines that follow heading line i up to line j, as a Section content
BodyBetween(lines, i, j) ==
    Join(Rest(SplitLines(Strip(Join(SubSeq(lines, i, j - 1), <<"\n">>)))), <<"\n">>)

LastOneWins(d, text, depth) ==
    LET lines == SplitLines(text)
        hs == SiblingHeadings(text, depth)
        KeyAt(i) == _make_key(LineTitle(lines[i]))
        NextAt(i) == IF \E j \in hs : j > i
                     THEN MinOf({j \in hs : j > i}) ELSE Len(lines) + 1
    IN  /\ Len(d) = Cardinality({KeyAt(i) : i \in hs})
        /\ Distinct(Keys(d))
        /\ \A i \in hs :
              (\A j \in hs : j > i => KeyAt(j) # KeyAt(i)) =>
                  \E k \in 1..Len(d) :
                      /\ d[k][1] = KeyAt(i)
                      /\ d[k][2].title = LineTitle(lines[i])
                      /\ d[k][2].content = BodyBetween(lines, i, NextAt(i))

MinDepth(text) ==
    MinOf({HeadingDepth(Strip(SplitLines(text)[i])) : i \in OpenHeadings(text)})

C27_LastSiblingWins ==
    (pst \in {"parsed", "combined"} /\ OpenHeadings(doc) # {}) =>
        /\ LastOneWins(ptree, doc, MinDepth(doc))
        /\ \A s \in SectionsOf(ptree) :
               LastOneWins(s.sections, s.content, s.level + MinDepth(doc))

\* two top-level headings with different titles and the same key, the first
\* one with a body: one Section is left, with the title of the later heading
\* and without the body of the earlier one
C27_Witness ==
    /\ pst = "parsed"
    /\ OpenHeadings(doc) # {}
    /\ \E i, j \in SiblingHeadings(doc, MinDepth(doc)) :
          LET lines == SplitLines(doc)
          IN  /\ i + 1 < j
              /\ j = Len(lines)
              /\ LineTitle(lines[i]) # LineTitle(lines[j])
              /\ _make_key(LineTitle(lines[i])) = _make_key(LineTitle(lines[j]))
              /\ ~BlankText(lines[i + 1])
              /\ \E k \in 1..Len(ptree) :
                    /\ ptree[k][1] = _make_key(LineTitle(lines[j]))
                    /\ ptree[k][2].title = LineTitle(lines[j])
                    /\ ptree[k][2].content = <<>>

\* C30: parse gives the text before the first heading of the shallowest level
\* to no Section: the title of every Section is the title of a heading line at
\* or after that heading and its content is made of the lines that follow this
\* heading line
FirstShallowest(text) == MinOf(SiblingHeadings(text, MinDepth(text)))

C30_PreambleInNoSection ==
    (pst \in {"parsed", "combined"} /\ OpenHeadings(doc) # {}) =>
        LET lines == SplitLines(doc)
        IN  /\ ptree # <<>>
            /\ \A s \in SectionsOf(ptree) :
                  \E i \in FirstShallowest(doc)..Len(lines) :
                      /\ HeadingLike(lines[i])
                      /\ s.title = LineTitle(lines[i])
                      /\ \E j \in (i + 1)..(Len(lines) + 1) :
                            s.content = BodyBetween(lines, i, j)

\* a deeper heading and a line of text come before the first heading of the
\* shallowest level: the tree holds the one Section of that heading
C30_Witness ==
    /\ pst = "parsed"
    /\ OpenHeadings(doc) # {}
    /\ \E i \in OpenHeadings(doc) : i < FirstShallowest(doc)
    /\ \E i \in 1..(FirstShallowest(doc) - 1) :
          ~HeadingLike(SplitLines(doc)[i]) /\ ~BlankText(SplitLines(doc)[i])
                                           /\ ~IsFenceLine(SplitLines(doc)[i], Fence)
    /\ CountSections(ptree) = 1
    /\ ptree[1][2].title = LineTitle(SplitLines(doc)[FirstShallowest(doc)])

\* C21: when the mappings of the sections have pairwise disjoint keys, the
\* mapping written holds exactly the entries of all of them, and merging the
\* answers in any other order gives the same entries
PairsOf(d) == {d[i] : i \in 1..Len(d)}

DisjointKeys(maps) ==
    \A i, j \in 1..Len(maps) :
        i # j => PairsOf(Keys(maps[i].items)) \cap PairsOf(Keys(maps[j].items)) = {}

Permuted(seq, p) == [i \in 1..Len(seq) |-> seq[p[i]]]

C21_DisjointMergeAnyOrder ==
    (cpc = "written" /\ DisjointKeys(MergedMaps)) =>
        /\ PairsOf(safe_load(outfile).items)
              = UNION {PairsOf(MergedMaps[i].items) : i \in 1..Len(MergedMaps)}
        /\ \A p \in Permutations(1..Len(yaml_sections)) :
              LET other == _merge_yaml_sections(Permuted(yaml_sections, p))
              IN  /\ ~other.raised
                  /\ PairsOf(safe_load(other.text).items)
                        = PairsOf(safe_load(outfile).items)

\* three sections, two of them answered with mappings under different keys,
\* and the text written holds both keys
C21_Witness ==
    /\ cpc = "written"
    /\ Len(yaml_sections) = 3
    /\ Len(MergedMaps) >= 2
    /\ DisjointKeys(MergedMaps)
    /\ Len(safe_load(outfile).items) = 2
    /\ Loaded(1).kind = "map" /\ Loaded(3).kind = "map"
    /\ Loaded(1).items # <<>> /\ Loaded(3).items # <<>>

\* C22: convert writes the output file only when every section was converted
\* and the merge succeeded: the file holds text only in the state "written",
\* with every call returned and the text being the merge of the answers; when
\* the read, a call or the merge fails convert has raised with that cause and
\* the file was never written
C22_NoOutputOnFailure ==
    /\ outfile # <<>> =>
          /\ cpc = "written"
          /\ cerr = "none"
          /\ \A i \in 1..Len(frags) : pc[i] = "done"
          /\ outfile = _merge_yaml_sections(yaml_sections).text
    /\ cpc = "written" => outfile # <<>>
    /\ cpc = "raised" =>
          /\ outfile = <<>>
          /\ cerr \in {"read", "oracle", "merge"}
          /\ cerr = "read" => frags = <<>> /\ pc = <<>>
          /\ cerr = "oracle" => \E i \in 1..Len(frags) : pc[i] = "failed"
          /\ cerr = "merge" => _merge_yaml_sections(yaml_sections).raised
    /\ cpc \in {"idle", "gather"} => outfile = <<>> /\ cerr = "none"

\* convert has raised for a merge that failed after every call had returned,
\* one of them with a mapping that could have been written
C22_Witness ==
    /\ cpc = "raised"
    /\ cerr = "merge"
    /\ Len(frags) >= 2
    /\ \A i \in 1..Len(frags) : pc[i] = "done"
    /\ MergedMaps # <<>>
    /\ outfile = <<>>

\* C23: summarize_section called with an empty or whitespace-only content
\* raises 'content cannot be empty' and no request is sent to the model: the
\* call never reaches the request, never returns a result, and the error is
\* raised for such a content only
C23_EmptyContentFailsFast ==
    /\ (BlankText(req.content) /\ cst # "idle") =>
          /\ cst = "raised"
          /\ cout.error = EmptyContentError
          /\ sent = 0
    /\ (cst = "raised" /\ cout.error = EmptyContentError) => BlankText(req.content)
    /\ cst \in {"sent", "returned", "failed"} => sent = 1 /\ ~BlankText(req.content)

\* the call was made with a content of whitespace lines and has raised
C23_Witness ==
    /\ cst = "raised"
    /\ cout.error = EmptyContentError
    /\ Len(req.content) >= 3
    /\ BlankText(req.content)
    /\ \E i \in 1..Len(req.content) : req.content[i] = "\n"
    /\ sent = 0

\* C26 as stated: a call of _deep_merge with a fragment that has a title
\* raises no error, leaves the key made from the title (lowercased, spaces
\* replaced by underscores) in the accumulator, and the content of the
\* fragment, when it has one, is what the accumulator holds under that key at
\* 'content', whatever was there before
LastCall == mlog[Len(mlog)]

SpacesToUnderscores(title) ==
    [i \in 1..Len(title) |-> IF title[i] = " " THEN "_" ELSE LowerChar(title[i])]

C26_TitledContentOverwrites ==
    (mlog # <<>> /\ HasKey(LastCall.dict2, TitleName)
                 /\ DictGet(LastCall.dict2, TitleName).kind = "scalar") =>
        LET key == SpacesToUnderscores(DictGet(LastCall.dict2, TitleName).str)
        IN  /\ mst = "ok"
            /\ HasKey(macc, key)
            /\ DictGet(macc, key).kind = "map"
            /\ HasKey(LastCall.dict2, ContentName) =>
                  /\ HasKey(DictGet(macc, key).items, ContentName)
                  /\ DictGet(DictGet(macc, key).items, ContentName)
                        = DictGet(LastCall.dict2, ContentName)

\* C25: the flat split gives one fragment for every heading outside a code
\* block, whatever its depth, in the order of the source; the fragment is the
\* heading line and the lines up to the next heading, trimmed. A document
\* without a heading is one fragment, its trimmed text, or none when it is
\* blank
RECURSIVE Ascending(_)
Ascending(S) ==
    IF S = {} THEN <<>> ELSE <<MinOf(S)>> \o Ascending(S \ {MinOf(S)})

====
